---- MODULE Spec2Model ----
(***************************************************************************)
(* Model of the editable grid of src/front.py (class EditRulesWindow):     *)
(* the Treeview rows, the selection, the single edit session kept in       *)
(* editing_entry / editing_item / editing_column_index, and the JSON save  *)
(* file.  One action per Tk event handler.  A Python exception raised by a *)
(* handler is caught by Tkinter's callback wrapper: the handler stops at   *)
(* the raising line, the assignments made before it stay, and the event    *)
(* loop goes on.                                                           *)
(***************************************************************************)
EXTENDS Integers, Sequences, FiniteSets, TLC

\* ---------------------------------------------------------------- bounds
\* Tree items inserted by add_row are capped: add_row is disabled once the
\* item counter of the window has reached MaxItems.
MaxItems == 2
\* Entry widgets alive at the same time.
MaxEntries == 2

\* len(headers), the header list handed to the constructor.
HeaderCount == 2
\* Rows of the grids delete_row is applied to by itself.
MaxRows == 3

\* ------------------------------------------------------------- constants

\* Python's None for the integer-valued fields editing_item and
\* editing_column_index (0 is a legal column index, so None is not 0).
None == -1
\* None for editing_entry; a live Entry widget is <<text>>.
NoEntry == <<>>
\* identify_column's "" answer for an x that lies in no column.
NoColumn == -1

\* Cell texts: the empty string add_row writes and a text the user types.
Texts == {"", "X"}

\* Rows of a save file that exists before the first window opens: a row
\* of header width, a shorter one and a longer one (the header list may
\* have changed since the file was written).
RowOfWidth(n) == [c \in 1..n |-> IF c = n THEN "X" ELSE ""]
ForeignRows == { RowOfWidth(HeaderCount), RowOfWidth(HeaderCount - 1),
                 RowOfWidth(HeaderCount + 1) }

\* ------------------------------------------------------------ JSON, Tcl
\* tree.item(item, "values") gives a tuple of str, except that Tk hands an
\* empty value list back as the empty string ''.  json.dump writes a tuple
\* as an array and '' as the string "".
JsonOfValues(v) ==
  IF Len(v) = 0 THEN [kind |-> "string", items |-> <<>>]
                ELSE [kind |-> "array", items |-> v]

\* tree.insert(values=row) for a row read by json.load: a list keeps its
\* elements; the string "" is the empty Tcl list.
ValuesOfJson(j) ==
  IF j.kind = "array" THEN j.items ELSE <<>>

\* rows = [self.tree.item(item, "values") for item in get_children()];
\* json.dump(rows, f)
DumpRows(ch, vals) == [i \in 1..Len(ch) |-> JsonOfValues(vals[ch[i]])]

\* The save file: whether os.path.exists finds it, whether json.load parses
\* its text, and the value json.load gives (the elements of the top-level
\* array).
NoFile == [exists |-> FALSE, parses |-> FALSE, rows |-> <<>>]
FileOf(rows) == [exists |-> TRUE, parses |-> TRUE, rows |-> rows]
\* A file whose text is not JSON, such as the text `not json`.
NotJson == [exists |-> TRUE, parses |-> FALSE, rows |-> <<>>]

\* ------------------------------------------------------------ environment
\* os.path.expanduser("~")
Home == "~"
\* Values of os.getenv("APPDATA"); "" stands for unset or empty, which
\* `or` treats alike.
Envs == {"", "A", "B"}
\* The logical names MainWindow hands to the two windows.
FileNames == {"rules.json", "default.json"}
\* The directories get_user_data_path can create under Envs.
Folders == { <<root, "xlsx_csv_repo">> : root \in (Envs \ {""}) \cup {Home} }

\* ----------------------------------------------------------------- state
VARIABLES
  children,              \* tree.get_children(): item ids in display order
  values,                \* item id -> its "values" tuple
  selection,             \* tree.selection(): set of selected item ids
  nextId,                \* number of items the tree has ever inserted
  editing_entry,         \* NoEntry or <<text of the Entry widget>>
  editing_item,          \* None or the item id being edited
  editing_column_index,  \* None or the column index being edited
  liveEntries,           \* Entry widgets created and not destroyed
  targetedEntries,       \* of those, the ones given a target row and column
  file,                  \* the save file
  save_button,           \* whether __init__ got as far as the "Save Rows" button
  appdata,               \* os.getenv("APPDATA"), "" when unset
  folders,               \* the directories that exist
  save_file,             \* self.save_file: <<>> or <<root, folder, filename>>
  last                   \* the last event: handler, inputs, exception raised

vars == << children, values, selection, nextId, editing_entry, editing_item,
           editing_column_index, liveEntries, targetedEntries, file,
           save_button, appdata, folders, save_file, last >>

\* The part of the object a handler reads and writes, as one record.
Self ==
  [ values |-> values,
    editing_entry |-> editing_entry,
    editing_item |-> editing_item,
    editing_column_index |-> editing_column_index,
    liveEntries |-> liveEntries,
    targetedEntries |-> targetedEntries,
    raised |-> "none" ]

\* The last event: the handler, the exception it raised (with the line),
\* whether a session was live when it began (for get_user_data_path:
\* whether it repeats the call before it, with the same filename) and, for
\* delete_row, how many rows were selected.
Event(op, raised, nsel, live) ==
  [op |-> op, raised |-> raised, nsel |-> nsel, live |-> live]

\* A session is live when all three tracking fields are set.
Live(s) ==
  /\ s.editing_entry # NoEntry
  /\ s.editing_item # None
  /\ s.editing_column_index # None

SessionLive ==
  /\ editing_entry # NoEntry
  /\ editing_item # None
  /\ editing_column_index # None

Items == DOMAIN values

\* tree.selection() lists the selected items in tree order.
RECURSIVE SelectedInOrder(_, _)
SelectedInOrder(ch, sel) ==
  IF ch = <<>> THEN <<>>
  ELSE IF Head(ch) \in sel THEN <<Head(ch)>> \o SelectedInOrder(Tail(ch), sel)
       ELSE SelectedInOrder(Tail(ch), sel)

RECURSIVE Without(_, _)
Without(ch, sel) ==
  IF ch = <<>> THEN <<>>
  ELSE IF Head(ch) \in sel THEN Without(Tail(ch), sel)
       ELSE <<Head(ch)>> \o Without(Tail(ch), sel)

\* ---------------------------------------------------- get_user_data_path
\* get_user_data_path with os.makedirs(folder), exist_ok left False: an
\* existing folder raises FileExistsError.
get_user_data_path_strict(env, dirs, filename) ==
  LET appdata_ == IF env # "" THEN env ELSE Home
      folder == <<appdata_, "xlsx_csv_repo">>
  IN IF folder \in dirs
     THEN [path |-> <<>>, folders |-> dirs, raised |-> "FileExistsError:83"]
     ELSE [path |-> Append(folder, filename), folders |-> dirs \cup {folder},
           raised |-> "none"]

\* appdata = os.getenv("APPDATA") or os.path.expanduser("~")
\* folder = os.path.join(appdata, "xlsx_csv_repo")
\* os.makedirs(folder, exist_ok=True)
\* return os.path.join(folder, filename)
get_user_data_path(env, dirs, filename) ==
  LET appdata_ == IF env # "" THEN env ELSE Home
      folder == <<appdata_, "xlsx_csv_repo">>
  IN [path |-> Append(folder, filename), folders |-> dirs \cup {folder},
      raised |-> "none"]

\* ------------------------------------------------------------- load_rows
\* load_rows with tree.insert("", 0, ...): every row goes to the top.
load_rows_at_top(f) ==
  IF ~f.exists
  THEN [children |-> <<>>, values |-> <<>>, raised |-> "FileNotFoundError:178"]
  ELSE IF ~f.parses
  THEN [children |-> <<>>, values |-> <<>>, raised |-> "JSONDecodeError:179"]
  ELSE [ children |-> [i \in 1..Len(f.rows) |-> Len(f.rows) + 1 - i],
         values |-> [i \in 1..Len(f.rows) |-> ValuesOfJson(f.rows[i])],
         raised |-> "none" ]

\* with open(self.save_file, "r") as f: rows = json.load(f)
\* for row in rows: self.tree.insert("", "end", values=row)
\* open raises for a missing file and json.load for a text that is not
\* JSON, both before the first insert.
load_rows(f) ==
  IF ~f.exists
  THEN [children |-> <<>>, values |-> <<>>, raised |-> "FileNotFoundError:178"]
  ELSE IF ~f.parses
  THEN [children |-> <<>>, values |-> <<>>, raised |-> "JSONDecodeError:179"]
  ELSE [ children |-> [i \in 1..Len(f.rows) |-> i],
         values |-> [i \in 1..Len(f.rows) |-> ValuesOfJson(f.rows[i])],
         raised |-> "none" ]

\* __init__ that calls load_rows without asking os.path.exists first.
Hydrated_unchecked(f) == load_rows(f)

\* __init__: empty tree, no session; load_rows when the file exists.
Hydrated(f) ==
  IF f.exists THEN load_rows(f)
  ELSE [children |-> <<>>, values |-> <<>>, raised |-> "none"]

\* The first window, opened by "Edit rules" with APPDATA unset.
Constructed(f) ==
  /\ appdata = ""
  /\ folders = get_user_data_path("", {}, "rules.json").folders
  /\ save_file = get_user_data_path("", {}, "rules.json").path
  /\ children = Hydrated(f).children
  /\ values = Hydrated(f).values
  /\ selection = {}
  /\ nextId = Len(Hydrated(f).children)
  /\ editing_entry = NoEntry
  /\ editing_item = None
  /\ editing_column_index = None
  /\ liveEntries = 0
  /\ targetedEntries = 0
  /\ file = f
  /\ save_button = (Hydrated(f).raised = "none")
  /\ last = Event("__init__", Hydrated(f).raised, 0, FALSE)

\* The save files a window may find: none, the text `not json`, the arrays
\* [] and [""] (an array of strings, not of arrays), and an array of one
\* row written under another header list.
InitFiles ==
  {NoFile, NotJson, FileOf(<<>>), FileOf(<<[kind |-> "string", items |-> <<>>]>>)} \cup
  { FileOf(<<[kind |-> "array", items |-> r]>>) : r \in ForeignRows }

Init == \E f \in InitFiles : Constructed(f)

\* ------------------------------------------------------------- save_edit
\* save_edit that destroys the Entry and clears the fields without writing
\* the text into the row.
save_edit_discards(s) ==
  IF Live(s)
  THEN [s EXCEPT !.editing_entry = NoEntry, !.editing_item = None,
                 !.editing_column_index = None,
                 !.liveEntries = @ - 1, !.targetedEntries = @ - 1]
  ELSE s

\* save_edit that tests editing_entry alone and destroys the Entry when the
\* target fields are unset.
save_edit_entry_only(s) ==
  IF s.editing_entry # NoEntry /\ ~Live(s)
  THEN [s EXCEPT !.editing_entry = NoEntry, !.liveEntries = @ - 1]
  ELSE IF ~Live(s) THEN s
  ELSE IF s.editing_item \notin DOMAIN s.values
  THEN [s EXCEPT !.raised = "TclError:111"]
  ELSE IF s.editing_column_index >= Len(s.values[s.editing_item])
  THEN [s EXCEPT !.raised = "IndexError:112"]
  ELSE [s EXCEPT
          !.values[s.editing_item][s.editing_column_index + 1] = s.editing_entry[1],
          !.editing_entry = NoEntry, !.editing_item = None,
          !.editing_column_index = None,
          !.liveEntries = @ - 1, !.targetedEntries = @ - 1]

save_edit(s) ==
  IF Live(s)
  THEN IF s.editing_item \notin DOMAIN s.values
       THEN \* tree.item(...) of a deleted item: TclError "Item ... not found"
            [s EXCEPT !.raised = "TclError:111"]
       ELSE IF s.editing_column_index >= Len(s.values[s.editing_item])
       THEN \* values[index] = new_value: IndexError
            [s EXCEPT !.raised = "IndexError:112"]
       ELSE [s EXCEPT
               !.values[s.editing_item][s.editing_column_index + 1] = s.editing_entry[1],
               !.editing_entry = NoEntry,
               !.editing_item = None,
               !.editing_column_index = None,
               !.liveEntries = @ - 1,
               !.targetedEntries = @ - 1]
  ELSE s

\* ------------------------------------------------------------- edit_cell
\* identify_column(event.x): "#1".."#n" over the n displayed columns, "" to
\* the right of the last one.  The x axis is in column widths.
identify_column(x) == IF x < HeaderCount THEN x + 1 ELSE NoColumn

\* The steps of edit_cell after the commit of the prior session, from the
\* state s1 that commit left, with col_index as computed from the column.
StartEdit(s1, sel, column, col_index, visible) ==
  LET selected_item == SelectedInOrder(children, sel)
      item == selected_item[1]
      s2 == [s1 EXCEPT !.editing_entry = <<"">>, !.liveEntries = @ + 1]
  IN IF s1.raised # "none" THEN s1
     ELSE IF selected_item = <<>> THEN s1
     ELSE IF column = NoColumn
     THEN \* int("") raises ValueError
          [s1 EXCEPT !.raised = "ValueError:134"]
     ELSE IF col_index >= 0
     THEN IF ~visible
          THEN \* bbox of an item scrolled out of view is "": the unpacking
               \* into x, y, width, height raises ValueError
               [s1 EXCEPT !.raised = "ValueError:138"]
          ELSE IF col_index >= Len(s1.values[item])
          THEN \* the Entry exists; values[col_index] raises IndexError
               [s2 EXCEPT !.raised = "IndexError:142"]
          ELSE [s2 EXCEPT
                  !.editing_entry = <<s1.values[item][col_index + 1]>>,
                  !.editing_item = item,
                  !.editing_column_index = col_index,
                  !.targetedEntries = @ + 1]
     ELSE s1

\* edit_cell with col_index = int(column.replace("#", "")), the "- 1" lost.
edit_cell_off_by_one(s, sel, x, visible) ==
  StartEdit(IF s.editing_entry # NoEntry THEN save_edit(s) ELSE s,
            sel, identify_column(x), identify_column(x), visible)

\* edit_cell without its first statement: the prior session is not saved.
edit_cell_no_commit(s, sel, x, visible) ==
  StartEdit(s, sel, identify_column(x), identify_column(x) - 1, visible)

\* edit_cell without the entry.insert of lines 141-143: the Entry of a new
\* session starts empty.
edit_cell_blank(s, sel, x, visible) ==
  LET r == StartEdit(IF s.editing_entry # NoEntry THEN save_edit(s) ELSE s,
                     sel, identify_column(x), identify_column(x) - 1, visible)
  IN IF r.raised = "none" /\ Live(r)
     THEN [r EXCEPT !.editing_entry = <<"">>] ELSE r

edit_cell(s, sel, x, visible) ==
  StartEdit(IF s.editing_entry # NoEntry THEN save_edit(s) ELSE s,
            sel, identify_column(x), identify_column(x) - 1, visible)

\* Writes a handler's result record back into the variables.
Store(s) ==
  /\ values' = s.values
  /\ editing_entry' = s.editing_entry
  /\ editing_item' = s.editing_item
  /\ editing_column_index' = s.editing_column_index
  /\ liveEntries' = s.liveEntries
  /\ targetedEntries' = s.targetedEntries

\* --------------------------------------------------------------- actions
\* add_row with tree.insert("", 0, ...): the new row goes to the top.
add_row_at_top ==
  /\ nextId < MaxItems
  /\ nextId' = nextId + 1
  /\ children' = <<nextId + 1>> \o children
  /\ values' = [i \in Items \cup {nextId + 1} |->
                  IF i \in Items THEN values[i] ELSE [c \in 1..HeaderCount |-> ""]]
  /\ last' = Event("add_row", "none", 0, SessionLive)
  /\ UNCHANGED << selection, editing_entry, editing_item, editing_column_index,
                  liveEntries, targetedEntries, file, save_button,
                  appdata, folders, save_file >>

\* "Add Row" button.
add_row ==
  /\ nextId < MaxItems
  /\ nextId' = nextId + 1
  /\ children' = Append(children, nextId + 1)
  /\ values' = [i \in Items \cup {nextId + 1} |->
                  IF i \in Items THEN values[i] ELSE [c \in 1..HeaderCount |-> ""]]
  /\ last' = Event("add_row", "none", 0, SessionLive)
  /\ UNCHANGED << selection, editing_entry, editing_item, editing_column_index,
                  liveEntries, targetedEntries, file, save_button,
                  appdata, folders, save_file >>

\* delete_row that deletes the last row when nothing is selected.
delete_row_or_last ==
  LET sel == IF selection = {} /\ children # <<>>
             THEN {children[Len(children)]} ELSE selection
  IN /\ children' = Without(children, sel)
     /\ values' = [i \in Items \ sel |-> values[i]]
     /\ selection' = {}
     /\ last' = Event("delete_row", "none", Cardinality(selection), SessionLive)
     /\ UNCHANGED << nextId, editing_entry, editing_item, editing_column_index,
                     liveEntries, targetedEntries, file, save_button,
                  appdata, folders, save_file >>

\* delete_row with self.tree.delete(selected_items[0]): only the first
\* selected row goes.
delete_row_first_only ==
  LET sel == IF selection = {} THEN {}
             ELSE {SelectedInOrder(children, selection)[1]}
  IN /\ children' = Without(children, sel)
     /\ values' = [i \in Items \ sel |-> values[i]]
     /\ selection' = selection \ sel
     /\ last' = Event("delete_row", "none", Cardinality(selection), SessionLive)
     /\ UNCHANGED << nextId, editing_entry, editing_item, editing_column_index,
                     liveEntries, targetedEntries, file, save_button,
                     appdata, folders, save_file >>

\* "Delete Row" button.
delete_row ==
  /\ children' = Without(children, selection)
  /\ values' = [i \in Items \ selection |-> values[i]]
  /\ selection' = {}
  /\ last' = Event("delete_row", "none", Cardinality(selection), SessionLive)
  /\ UNCHANGED << nextId, editing_entry, editing_item, editing_column_index,
                  liveEntries, targetedEntries, file, save_button,
                  appdata, folders, save_file >>

\* The selection Tk's Treeview class binding makes after the widget binding
\* has run: a plain click on a row selects it alone, Control-click toggles
\* it, a click on a heading or below the rows changes nothing.
Pressed(sel, press) ==
  IF press.item = None THEN sel
  ELSE IF press.toggle THEN (sel \ {press.item}) \cup ({press.item} \ sel)
  ELSE {press.item}

\* <Button-1> on the tree at column position x, over the row press.item.
Button1(x, press, visible) ==
  LET s == edit_cell(Self, selection, x, visible)
  IN /\ s.liveEntries <= MaxEntries
     /\ Store(s)
     /\ selection' = Pressed(selection, press)
     /\ last' = Event("edit_cell", s.raised, 0, SessionLive)
     /\ UNCHANGED << children, nextId, file, save_button,
                  appdata, folders, save_file >>

\* The user types in the Entry widget editing_entry refers to.
TypeText(t) ==
  /\ editing_entry # NoEntry
  /\ editing_entry # <<t>>
  /\ editing_entry' = <<t>>
  /\ last' = Event("type", "none", 0, SessionLive)
  /\ UNCHANGED << children, values, selection, nextId, editing_item,
                  editing_column_index, liveEntries, targetedEntries, file, save_button,
                  appdata, folders, save_file >>

\* <Return> in an Entry widget: save_edit(event).  Line 149 binds the key
\* only on an Entry whose edit_cell ran to its end, so an Entry left by an
\* edit_cell that raised at line 142 has no such binding.
ReturnKey ==
  LET s == save_edit(Self)
  IN /\ targetedEntries > 0
     /\ Store(s)
     /\ last' = Event("save_edit", s.raised, 0, SessionLive)
     /\ UNCHANGED << children, selection, nextId, file, save_button,
                  appdata, folders, save_file >>

\* save_edit_on_click that also writes the rows to the save file.
save_edit_on_click_autosave ==
  LET s == IF editing_entry # NoEntry THEN save_edit(Self) ELSE Self
  IN /\ Store(s)
     /\ file' = FileOf(DumpRows(children, s.values))
     /\ last' = Event("save_edit_on_click", s.raised, 0, SessionLive)
     /\ UNCHANGED << children, selection, nextId, save_button,
                     appdata, folders, save_file >>

\* <Button-1> on the frame.
save_edit_on_click ==
  LET s == IF editing_entry # NoEntry THEN save_edit(Self) ELSE Self
  IN /\ Store(s)
     /\ last' = Event("save_edit_on_click", s.raised, 0, SessionLive)
     /\ UNCHANGED << children, selection, nextId, file, save_button,
                  appdata, folders, save_file >>

\* "Save Rows" button.  The button exists only when __init__ did not raise
\* before line 67.
save_rows ==
  LET s == IF editing_entry # NoEntry THEN save_edit(Self) ELSE Self
  IN /\ save_button
     /\ Store(s)
     /\ file' = IF s.raised = "none" THEN FileOf(DumpRows(children, s.values)) ELSE file
     /\ last' = Event("save_rows", s.raised, 0, SessionLive)
     /\ UNCHANGED << children, selection, nextId, save_button, appdata,
                     folders, save_file >>

\* The window is closed and a new one is opened on the same save file.
\* Were get_user_data_path to raise, __init__ would end at line 23 with no
\* Treeview and no button.
Reopen ==
  LET p == get_user_data_path(appdata, folders, save_file[3])
      h == IF p.raised = "none" THEN Hydrated(file)
           ELSE [children |-> <<>>, values |-> <<>>, raised |-> p.raised]
  IN
  /\ save_file' = IF p.raised = "none" THEN p.path ELSE save_file
  /\ folders' = p.folders
  /\ UNCHANGED appdata
  /\ children' = h.children
  /\ values' = h.values
  /\ selection' = {}
  /\ nextId' = Len(h.children)
  /\ editing_entry' = NoEntry
  /\ editing_item' = None
  /\ editing_column_index' = None
  /\ liveEntries' = 0
  /\ targetedEntries' = 0
  /\ save_button' = (h.raised = "none")
  /\ last' = Event("__init__", h.raised, 0, FALSE)
  /\ UNCHANGED file

Presses ==
  {[item |-> None, toggle |-> FALSE]} \cup [item : Items, toggle : BOOLEAN]

\* Whether the bbox of the selected row is on screen is asked only when a
\* row is selected and x lies in a column.
Visibilities(x) ==
  IF selection = {} \/ identify_column(x) = NoColumn THEN {TRUE} ELSE BOOLEAN

Click ==
  \E x \in 0..HeaderCount, press \in Presses :
    \E visible \in Visibilities(x) : Button1(x, press, visible)

Type == \E t \in Texts : TypeText(t)

Next ==
  \/ add_row
  \/ delete_row
  \/ Click
  \/ Type
  \/ ReturnKey
  \/ save_edit_on_click
  \/ save_rows
  \/ Reopen

Spec == Init /\ [][Next]_vars

\* --------------------------------------------------- delete_row, by itself
\* A window opened on no file after MaxRows rows were added, their cells
\* edited and some of them selected; no session is live.
GridOf(vals, sel) ==
  /\ children = [i \in 1..MaxRows |-> i]
  /\ values = vals
  /\ selection = sel
  /\ nextId = MaxRows
  /\ editing_entry = NoEntry
  /\ editing_item = None
  /\ editing_column_index = None
  /\ liveEntries = 0
  /\ targetedEntries = 0
  /\ file = NoFile
  /\ save_button = TRUE
  /\ appdata = ""
  /\ folders = get_user_data_path("", {}, "rules.json").folders
  /\ save_file = get_user_data_path("", {}, "rules.json").path
  /\ last = Event("edit_cell", "none", 0, FALSE)

DeleteInit ==
  \E vals \in [1..MaxRows -> [1..HeaderCount -> Texts]],
     sel \in SUBSET (1..MaxRows) : GridOf(vals, sel)

DeleteNext == delete_row

DeleteSpec == DeleteInit /\ [][DeleteNext]_vars

\* ------------------------------------------- get_user_data_path, by itself
\* The application has started and no window has been constructed yet.
NoWindow(env, dirs) ==
  /\ appdata = env
  /\ folders = dirs
  /\ save_file = <<>>
  /\ children = <<>>
  /\ values = <<>>
  /\ selection = {}
  /\ nextId = 0
  /\ editing_entry = NoEntry
  /\ editing_item = None
  /\ editing_column_index = None
  /\ liveEntries = 0
  /\ targetedEntries = 0
  /\ file = NoFile
  /\ save_button = FALSE
  /\ last = Event("start", "none", 0, FALSE)

PathInit == \E env \in Envs, dirs \in SUBSET Folders : NoWindow(env, dirs)

\* One call of get_user_data_path(filename).
ResolvePath(filename) ==
  LET p == get_user_data_path(appdata, folders, filename)
  IN /\ save_file' = IF p.raised = "none" THEN p.path ELSE save_file
     /\ folders' = p.folders
     /\ last' = Event("get_user_data_path", p.raised, 0,
                      /\ last.op = "get_user_data_path"
                      /\ last.raised = "none"
                      /\ save_file = p.path)
     /\ UNCHANGED << appdata, children, values, selection, nextId,
                     editing_entry, editing_item, editing_column_index,
                     liveEntries, targetedEntries, file, save_button >>

\* The user removes a directory between two calls.
RemoveFolder(d) ==
  /\ d \in folders
  /\ folders' = folders \ {d}
  /\ last' = Event("rmdir", "none", 0, FALSE)
  /\ UNCHANGED << appdata, save_file, children, values, selection, nextId,
                  editing_entry, editing_item, editing_column_index,
                  liveEntries, targetedEntries, file, save_button >>

Resolve == \E filename \in FileNames : ResolvePath(filename)

Remove == \E d \in Folders : RemoveFolder(d)

PathNext == Resolve \/ Remove

PathSpec == PathInit /\ [][PathNext]_vars

\* ---------------------------------------------------------------- claims
\* The rows of the grid in display order.
RowsOf(ch, vals) == [i \in 1..Len(ch) |-> vals[ch[i]]]

\* The pending text of the live session stands in its target cell after
\* the step.
Committed ==
  /\ editing_item \in DOMAIN values'
  /\ editing_column_index < Len(values'[editing_item])
  /\ values'[editing_item][editing_column_index + 1] = editing_entry[1]

SessionLiveNext ==
  /\ editing_entry' # NoEntry
  /\ editing_item' # None
  /\ editing_column_index' # None

SessionKept ==
  /\ editing_entry' = editing_entry
  /\ editing_item' = editing_item
  /\ editing_column_index' = editing_column_index

\* C1: whenever edit_cell runs while a session is live, the pending text of
\* that session is written into its target row and column.
C1_ClickCommitsPrior ==
  [][(SessionLive /\ last'.op = "edit_cell") => Committed]_vars

\* C2: under the user events (add row, delete row, cell click, typing,
\* confirm key, click elsewhere, save) a live session either stays as it is,
\* or only its text changes by typing, or its pending text has been written
\* into the target cell: Editing is never left, and the text never dropped,
\* without the commit.
C2_EditingLeftOnlyByCommit ==
  [][(SessionLive /\ last'.op # "__init__") =>
        \/ Committed
        \/ SessionKept
        \/ /\ last'.op = "type"
           /\ SessionLiveNext
           /\ editing_item' = editing_item
           /\ editing_column_index' = editing_column_index]_vars

\* C2 witness: a click on the frame has committed a live session.
C2_Witness ==
  /\ last.op = "save_edit_on_click"
  /\ last.live
  /\ last.raised = "none"
  /\ ~SessionLive
  /\ \E i \in Items : \E c \in 1..Len(values[i]) : values[i][c] = "X"

\* C3: save_edit with a live session sets the target cell to the pending
\* text, leaves every other cell and row, the row count and the order
\* unchanged, and leaves no session live.
C3_CommitWritesTargetCell ==
  [][(SessionLive /\ last'.op = "save_edit") =>
        /\ editing_item \in Items
        /\ editing_column_index < Len(values[editing_item])
        /\ values' = [values EXCEPT
                        ![editing_item][editing_column_index + 1] = editing_entry[1]]
        /\ children' = children
        /\ ~SessionLiveNext]_vars

\* C4: in every reachable state every row is as long as the header list.
C4_RowsHaveHeaderWidth ==
  \A i \in Items : Len(values[i]) = HeaderCount

\* C5: save_rows followed by load_rows from the written file into an empty
\* grid gives the rows of the grid in the same order with the same cells,
\* for rows of one width.
C5_SaveLoadRoundTrip ==
  [][(/\ last'.op = "save_rows"
      /\ last'.raised = "none"
      /\ \A i, j \in DOMAIN values' : Len(values'[i]) = Len(values'[j])) =>
        /\ file'.exists
        /\ RowsOf(Hydrated(file').children, Hydrated(file').values)
             = RowsOf(children', values')]_vars

\* C5 witness: two rows with different cells have been saved.
C5_Witness ==
  /\ last.op = "save_rows"
  /\ last.raised = "none"
  /\ Len(children) = 2
  /\ \A i \in Items : Len(values[i]) = HeaderCount
  /\ values[children[1]] # values[children[2]]
  /\ file = FileOf(DumpRows(children, values))

\* C6: add_row appends one row of HeaderCount empty strings at the end and
\* leaves the rows already there, and their order, unchanged.
C6_AddRowAppendsEmptyRow ==
  [][last'.op = "add_row" =>
        /\ Len(children') = Len(children) + 1
        /\ SubSeq(children', 1, Len(children)) = children
        /\ children'[Len(children')] \notin Items
        /\ values'[children'[Len(children')]] = [c \in 1..HeaderCount |-> ""]
        /\ \A i \in Items : values'[i] = values[i]]_vars

\* C6 witness: two add_row calls on a grid opened without a file.
C6_Witness ==
  /\ last.op = "add_row"
  /\ ~file.exists
  /\ Len(children) = 2
  /\ \A i \in Items : values[i] = [c \in 1..HeaderCount |-> ""]

\* C7: delete_row with no selected row that is in the grid leaves the rows
\* and their order unchanged and raises nothing.
C7_DeleteNothingSelected ==
  [][(/\ last'.op = "delete_row"
      /\ selection \cap {children[i] : i \in 1..Len(children)} = {}) =>
        /\ children' = children
        /\ values' = values
        /\ last'.raised = "none"]_vars

\* C7 witness: delete_row has run with an empty selection on a grid that
\* holds rows.
C7_Witness ==
  /\ last.op = "delete_row"
  /\ last.nsel = 0
  /\ children # <<>>

\* C8: save_edit without a live session changes no row, no cell and no
\* session field.
C8_CommitWithoutSession ==
  [][(~SessionLive /\ last'.op \in {"save_edit", "save_edit_on_click"}) =>
        UNCHANGED << children, values, editing_entry, editing_item,
                     editing_column_index, liveEntries, targetedEntries >>]_vars

\* C8 witness: a click on the frame has called save_edit (editing_entry is
\* set) while no session was live (no target is set).
C8_Witness ==
  /\ last.op = "save_edit_on_click"
  /\ ~last.live
  /\ last.raised = "none"
  /\ editing_entry # NoEntry
  /\ editing_item = None

\* C9: a session that is live after a step has its column index in
\* 0..HeaderCount-1 (no session is live after construction), and a click at
\* an x that is in no column (int("") raises at line 134) creates no Entry,
\* starts no session and changes no cell other than the one the prior
\* session's commit writes.
C9_ColumnIndexInRange ==
  [][/\ SessionLiveNext => editing_column_index' \in 0..(HeaderCount - 1)
     /\ (last'.op = "edit_cell" /\ last'.raised = "ValueError:134") =>
           /\ liveEntries' <= liveEntries
           /\ ~SessionLiveNext
           /\ DOMAIN values' = DOMAIN values
           /\ \A i \in Items : \A c \in 1..Len(values[i]) :
                values'[i][c] # values[i][c] =>
                  (SessionLive /\ i = editing_item /\ c = editing_column_index + 1)]_vars

\* C9 witness: a click right of the last column, with a row selected.
C9_Witness ==
  /\ last.op = "edit_cell"
  /\ last.raised = "ValueError:134"

\* C10: at most one live Entry widget has a target row and column.
C10_AtMostOneSession ==
  targetedEntries <= 1

\* C10 witness: a click has started a session while another was live.
C10_Witness ==
  /\ last.op = "edit_cell"
  /\ last.live
  /\ last.raised = "none"
  /\ SessionLive
  /\ targetedEntries = 1

\* No session and no Entry widget: the Idle state.
Idle ==
  /\ editing_entry = NoEntry
  /\ editing_item = None
  /\ editing_column_index = None

\* C11: a window constructed while the save file does not exist has no
\* rows, is Idle, and its constructor raised nothing.
C11_MissingFileEmptyGrid ==
  (last.op = "__init__" /\ ~file.exists) =>
    /\ children = <<>>
    /\ Items = {}
    /\ Idle
    /\ last.raised = "none"

C11_Witness ==
  /\ last.op = "__init__"
  /\ ~file.exists
  /\ children = <<>>
  /\ save_button

\* The top-level value of the file is an array whose elements are arrays.
ArrayOfArrays(f) ==
  /\ f.parses
  /\ \A i \in 1..Len(f.rows) : f.rows[i].kind = "array"

\* C12: a window constructed on a file that is not JSON, or whose value is
\* not an array of arrays, fails with an error other than the missing-file
\* one and has no rows.
C12_MalformedFileFormatError ==
  (last.op = "__init__" /\ file.exists /\ ~ArrayOfArrays(file)) =>
    /\ last.raised \notin {"none", "FileNotFoundError:178"}
    /\ children = <<>>

\* The handlers the grid's buttons, keys and clicks call to change the grid.
MutationOps == {"add_row", "delete_row", "edit_cell", "save_edit", "save_edit_on_click"}

\* C13: whatever events came before, add_row, delete_row, edit_cell,
\* save_edit and save_edit_on_click return without raising.
C13_MutationsNeverRaise ==
  last.op \in MutationOps => last.raised = "none"

\* The two cases the claim names: a commit after the edited row was deleted
\* and a click on a cell beyond the end of a short loaded row.
C13_CommitAfterDeleteReturns ==
  [][(SessionLive /\ editing_item \notin Items /\ last'.op \in MutationOps)
       => last'.raised = "none"]_vars

C13_ShortRowClickReturns ==
  (last.op = "edit_cell" /\ \E i \in Items : Len(values[i]) < HeaderCount)
    => last.raised # "IndexError:142"

\* C14: save_rows called while a session is live commits it first: after
\* the call no session is live, the pending text stands in the target cell,
\* and the file holds the rows of the grid.
C14_SaveCommitsFirst ==
  [][(SessionLive /\ last'.op = "save_rows") =>
       /\ ~SessionLiveNext
       /\ Committed
       /\ file' = FileOf(DumpRows(children', values'))]_vars

\* C15: a session started by edit_cell has the current text of its target
\* cell as pending text, and a commit that directly follows the start of
\* the session, with no typing in between, leaves every row as it was.
C15_BeginEditTakesCellText ==
  [][/\ (last'.op = "edit_cell" /\ last'.raised = "none" /\ SessionLiveNext) =>
          /\ editing_item' \in DOMAIN values'
          /\ editing_column_index' < Len(values'[editing_item'])
          /\ editing_entry' = <<values'[editing_item'][editing_column_index' + 1]>>
     /\ (/\ last.op = "edit_cell" /\ last.raised = "none" /\ SessionLive
         /\ last'.op \in {"save_edit", "save_edit_on_click"}) =>
          /\ values' = values
          /\ children' = children]_vars

\* A session has just started on a cell that holds a text.
C15_Witness ==
  /\ last.op = "edit_cell"
  /\ last.raised = "none"
  /\ SessionLive
  /\ editing_item \in Items
  /\ editing_entry = <<"X">>
  /\ values[editing_item][editing_column_index + 1] = "X"

\* <userDataDir>: APPDATA when it is set and not empty, else the home
\* directory.
UserDataDir == IF appdata # "" THEN appdata ELSE Home

\* C16: a call of get_user_data_path does not fail, returns
\* <userDataDir>/xlsx_csv_repo/<name> and leaves the directory in place; a
\* call that follows a call with the same name, the directory now existing,
\* returns the same path.
C16_ResolvePathIdempotent ==
  [][last'.op = "get_user_data_path" =>
       /\ last'.raised = "none"
       /\ Len(save_file') = 3
       /\ save_file' = <<UserDataDir, "xlsx_csv_repo", save_file'[3]>>
       /\ <<UserDataDir, "xlsx_csv_repo">> \in folders'
       /\ (last.op = "get_user_data_path" /\ save_file[3] = save_file'[3])
            => save_file' = save_file]_vars

\* A second call with the same name has returned.
C16_Witness ==
  /\ last.op = "get_user_data_path"
  /\ last.live
  /\ last.raised = "none"
  /\ save_file = <<UserDataDir, "xlsx_csv_repo", "rules.json">>
  /\ <<UserDataDir, "xlsx_csv_repo">> \in folders

\* The position of item r in the display order ch.
PositionIn(ch, r) == CHOOSE k \in 1..Len(ch) : ch[k] = r

\* C17: delete_row removes the selected rows and no other: the rows left
\* are the unselected ones, each once, in the order they had, with the
\* values they had.
C17_DeleteRemovesSelection ==
  [][last'.op = "delete_row" =>
       /\ {children'[k] : k \in 1..Len(children')}
            = {children[k] : k \in 1..Len(children)} \ selection
       /\ \A j, k \in 1..Len(children') :
            j < k => PositionIn(children, children'[j]) < PositionIn(children, children'[k])
       /\ DOMAIN values' = Items \ selection
       /\ \A r \in DOMAIN values' : values'[r] = values[r]]_vars

\* One selected row of three was deleted; the two others are still there.
C17_Witness ==
  /\ last.op = "delete_row"
  /\ last.nsel = 1
  /\ children = <<1, 3>>
  /\ values[1] # values[3]

\* C18: in every state the three editing fields are all unset or all set.
C18_FieldsSetTogether == Idle \/ SessionLive

\* C19: the target row of a live session is a row of the grid.
C19_SessionRowInGrid == SessionLive => editing_item \in Items

\* The rows json.load reads from the file f, as tree.insert stores them.
RowsIn(f) == [i \in 1..Len(f.rows) |-> ValuesOfJson(f.rows[i])]

\* C20: add_row, delete_row, edit_cell, save_edit, save_edit_on_click and
\* typing leave the save file as it is, and a window constructed on the
\* file leaves it as it is and shows the rows the file holds: those of the
\* last save_rows, whatever was done to the grid since.
C20_FileChangesOnlyInSave ==
  [][/\ last'.op \in MutationOps \cup {"type"} => file' = file
     /\ last'.op = "__init__" =>
          /\ file' = file
          /\ (file.exists /\ file.parses) =>
               RowsOf(children', values') = RowsIn(file)
          /\ ~(file.exists /\ file.parses) => children' = <<>>]_vars

\* A grid event has changed the rows since the file was written: the grid
\* and the file differ.
C20_Witness ==
  /\ last.op \in MutationOps
  /\ file.exists
  /\ file.parses
  /\ RowsOf(children, values) # RowsIn(file)
====
